---- MODULE Spec2Model ----
(***************************************************************************)
(* Botanica: the Darwin Core adapter (src/src/darwin_core.rs), the IUCN    *)
(* conservation classifier (src/src/conservation.rs) and the ContextLite   *)
(* integration (src/src/contextlite.rs).                                   *)
(*                                                                         *)
(* The library is a set of functions called one at a time by a client.     *)
(* The state is the call the client holds: the operation, its arguments    *)
(* and the value it returned.  The client drops the returned value (scope  *)
(* exit) before it makes its next call.                                    *)
(*                                                                         *)
(* The conservation lookups are futures that suspend in a timer.  FetchSpec*)
(* runs up to MaxTasks of them concurrently; tasks holds, for each, where  *)
(* it is suspended, its local values and its result.                       *)
(*                                                                         *)
(* db is the content of the BotanicalDatabase the integration functions    *)
(* are handed a reference to.  EnrichSpec runs the calls and the fetches   *)
(* against it.                                                             *)
(*                                                                         *)
(* Encodings                                                               *)
(*   String      a sequence of one-character strings, so that format!      *)
(*               is sequence concatenation; string literals that are only  *)
(*               ever compared as a whole stay TLA+ strings                *)
(*   Option<T>   None is <<>>, Some(x) is <<x>>                            *)
(*   f64         one of the names in F64; != is IEEE-754 inequality        *)
(*   Uuid        a number in 1..MaxUuid; Uuid::new_v4() picks any of them  *)
(***************************************************************************)
EXTENDS Integers, Sequences, FiniteSets, TLC

VARIABLES op, args, result, tasks, db

vars == <<op, args, result, tasks, db>>

\* the call of the synchronous client
callVars == <<op, args, result>>

(***************************************************************************)
(* Bounds                                                                  *)
(***************************************************************************)
MaxUuid == 2

MaxWords == 2

MaxTasks == 2

(***************************************************************************)
(* Option<T>                                                               *)
(***************************************************************************)
None == <<>>

Some(x) == <<x>>

is_none(o) == o = None

Option(S) == {None} \cup {Some(x) : x \in S}

\* Option::map with the closure |s| s.to_string(), which copies the string
map_to_string(o) == IF is_none(o) THEN None ELSE Some(o[1])

\* Option::unwrap_or
unwrap_or(o, default) == IF is_none(o) THEN default ELSE o[1]

(***************************************************************************)
(* f64                                                                     *)
(***************************************************************************)
F64 == {"0.0", "-0.0", "NaN", "40.7128"}

F64IsZero(x) == x \in {"0.0", "-0.0"}

\* the != operator on f64: NaN differs from everything, the two zeros are equal
F64Ne(x, y) ==
    IF x = "NaN" \/ y = "NaN" THEN TRUE
    ELSE IF F64IsZero(x) /\ F64IsZero(y) THEN FALSE
    ELSE x # y

(***************************************************************************)
(* Input values                                                            *)
(***************************************************************************)
Uuids == 1..MaxUuid

\* the empty string ""
EmptyString == <<>>

Epithets == { <<"r","u","b","i","g","i","n","o","s","a">>, EmptyString }

Authorities == { <<"L",".">>, EmptyString }

GenusNames == { <<"R","o","s","a">>, EmptyString }

FamilyNames == { <<"R","o","s","a","c","e","a","e">>, EmptyString }

Collectors == { <<"J","."," ","S","m","i","t","h">>, EmptyString }

Locations == Option(F64 \X F64)

PublicationYears == Option({1753})

\* crate::types::Species
SpeciesValues ==
    [ id : Uuids,
      genus_id : Uuids,
      specific_epithet : Epithets,
      authority : Authorities,
      publication_year : PublicationYears ]

get_specific_epithet(species) == species.specific_epithet

get_authority(species) == species.authority

(***************************************************************************)
(* conversion::species_to_darwin_core_taxon                                *)
(***************************************************************************)
\* format!("{}{}", ...): the separating space left out
species_to_darwin_core_taxon_NoSpace(species, genus_name, new_v4) ==
    [ taxon_id |-> new_v4,
      scientific_name |-> genus_name \o get_specific_epithet(species),
      scientific_name_authorship |-> Some(get_authority(species)),
      taxonomic_status |-> "Accepted",
      taxon_rank |-> "Species",
      nomenclatural_code |-> Some("ICN"),
      nomenclatural_status |-> None,
      parent_name_usage_id |-> None,
      accepted_name_usage_id |-> None,
      original_name_usage_id |-> None ]

\* the zoological code instead of the botanical one, and no authorship
species_to_darwin_core_taxon_Zoological(species, genus_name, new_v4) ==
    [ taxon_id |-> new_v4,
      scientific_name |-> genus_name \o <<" ">> \o get_specific_epithet(species),
      scientific_name_authorship |-> None,
      taxonomic_status |-> "Accepted",
      taxon_rank |-> "Species",
      nomenclatural_code |-> Some("ICZN"),
      nomenclatural_status |-> None,
      parent_name_usage_id |-> None,
      accepted_name_usage_id |-> None,
      original_name_usage_id |-> None ]

species_to_darwin_core_taxon(species, genus_name, new_v4) ==
    [ taxon_id |-> new_v4,
      scientific_name |-> genus_name \o <<" ">> \o get_specific_epithet(species),
      scientific_name_authorship |-> Some(get_authority(species)),
      taxonomic_status |-> "Accepted",
      taxon_rank |-> "Species",
      nomenclatural_code |-> Some("ICN"),
      nomenclatural_status |-> None,
      parent_name_usage_id |-> None,
      accepted_name_usage_id |-> None,
      original_name_usage_id |-> None ]

(***************************************************************************)
(* conversion::create_occurrence_record                                    *)
(***************************************************************************)
\* the struct literal of create_occurrence_record
OccurrenceLiteral(species, genus_name, family_name, lat, lon, collection_info, new_v4) ==
        [ occurrence_id |-> new_v4,
          scientific_name |-> genus_name \o <<" ">> \o get_specific_epithet(species),
          kingdom |-> Some("Plantae"),
          phylum |-> None,
          class |-> None,
          order |-> None,
          family |-> Some(family_name),
          genus |-> Some(genus_name),
          specific_epithet |-> Some(get_specific_epithet(species)),
          event_date |-> None,
          event_time |-> None,
          recorded_by |-> map_to_string(collection_info),
          decimal_latitude |-> IF F64Ne(lat, "0.0") THEN Some(lat) ELSE None,
          decimal_longitude |-> IF F64Ne(lon, "0.0") THEN Some(lon) ELSE None,
          coordinate_uncertainty_in_meters |-> None,
          country |-> None,
          state_province |-> None,
          locality |-> None,
          basis_of_record |-> "PreservedSpecimen",
          occurrence_status |-> "Present",
          catalog_number |-> None,
          collection_code |-> None,
          institution_code |-> None,
          individual_count |-> Some(1),
          life_stage |-> None,
          reproductive_condition |-> None,
          establishment_means |-> None,
          preparations |-> None ]

\* the genus field left unset
create_occurrence_record_NoGenus(species, genus_name, family_name, location, collection_info, new_v4) ==
    LET latlon == unwrap_or(location, <<"0.0", "0.0">>)
    IN  [ OccurrenceLiteral(species, genus_name, family_name, latlon[1], latlon[2],
                            collection_info, new_v4)
            EXCEPT !.genus = None ]

\* a location with a zero axis dropped as a whole
create_occurrence_record_JointZero(species, genus_name, family_name, location, collection_info, new_v4) ==
    LET latlon == unwrap_or(location, <<"0.0", "0.0">>)
        r == OccurrenceLiteral(species, genus_name, family_name, latlon[1], latlon[2],
                               collection_info, new_v4)
    IN  IF is_none(r.decimal_latitude) \/ is_none(r.decimal_longitude)
        THEN [r EXCEPT !.decimal_latitude = None, !.decimal_longitude = None]
        ELSE r

\* family and genus exchanged
create_occurrence_record_FamilyGenusSwapped(species, genus_name, family_name, location, collection_info, new_v4) ==
    LET latlon == unwrap_or(location, <<"0.0", "0.0">>)
    IN  [ OccurrenceLiteral(species, genus_name, family_name, latlon[1], latlon[2],
                            collection_info, new_v4)
            EXCEPT !.family = Some(genus_name), !.genus = Some(family_name) ]

\* the record stamped with a collection date
create_occurrence_record_Dated(species, genus_name, family_name, location, collection_info, new_v4) ==
    LET latlon == unwrap_or(location, <<"0.0", "0.0">>)
    IN  [ OccurrenceLiteral(species, genus_name, family_name, latlon[1], latlon[2],
                            collection_info, new_v4)
            EXCEPT !.event_date = Some(<<2024, 1, 1>>) ]

create_occurrence_record(species, genus_name, family_name, location, collection_info, new_v4) ==
    LET latlon == unwrap_or(location, <<"0.0", "0.0">>)
        lat == latlon[1]
        lon == latlon[2]
    IN  OccurrenceLiteral(species, genus_name, family_name, lat, lon, collection_info, new_v4)

(***************************************************************************)
(* queries::validate_darwin_core_record                                    *)
(***************************************************************************)
\* the coordinates warning only when both axes are absent (&& for ||)
validate_darwin_core_record_BothAxes(record) ==
    LET warnings0 == <<>>
        warnings1 == IF is_none(record.decimal_latitude) /\ is_none(record.decimal_longitude)
                     THEN Append(warnings0, "Missing geographic coordinates")
                     ELSE warnings0
        warnings2 == IF is_none(record.event_date)
                     THEN Append(warnings1, "Missing collection date")
                     ELSE warnings1
        warnings3 == IF is_none(record.recorded_by)
                     THEN Append(warnings2, "Missing collector information")
                     ELSE warnings2
    IN  warnings3

validate_darwin_core_record(record) ==
    LET warnings0 == <<>>
        warnings1 == IF is_none(record.decimal_latitude) \/ is_none(record.decimal_longitude)
                     THEN Append(warnings0, "Missing geographic coordinates")
                     ELSE warnings0
        warnings2 == IF is_none(record.event_date)
                     THEN Append(warnings1, "Missing collection date")
                     ELSE warnings1
        warnings3 == IF is_none(record.recorded_by)
                     THEN Append(warnings2, "Missing collector information")
                     ELSE warnings2
    IN  warnings3

\* the record the tests validate (test_record_validation)
TestOccurrence ==
    [ occurrence_id |-> 1,
      scientific_name |-> <<"R","o","s","a"," ","r","u","b","i","g","i","n","o","s","a">>,
      kingdom |-> Some("Plantae"),
      phylum |-> None,
      class |-> None,
      order |-> None,
      family |-> Some(<<"R","o","s","a","c","e","a","e">>),
      genus |-> Some(<<"R","o","s","a">>),
      specific_epithet |-> Some(<<"r","u","b","i","g","i","n","o","s","a">>),
      event_date |-> None,
      event_time |-> None,
      recorded_by |-> None,
      decimal_latitude |-> None,
      decimal_longitude |-> None,
      coordinate_uncertainty_in_meters |-> None,
      country |-> None,
      state_province |-> None,
      locality |-> None,
      basis_of_record |-> "PreservedSpecimen",
      occurrence_status |-> "Present",
      catalog_number |-> None,
      collection_code |-> None,
      institution_code |-> None,
      individual_count |-> Some(1),
      life_stage |-> None,
      reproductive_condition |-> None,
      establishment_means |-> None,
      preparations |-> None ]

EventDates == Option({<<2024, 1, 1>>})

\* DarwinCoreOccurrence values: every field is public, so a client can hold a
\* record with any combination of coordinates, date and recorder
OccurrenceValues ==
    { [TestOccurrence EXCEPT !.decimal_latitude = lat,
                             !.decimal_longitude = lon,
                             !.event_date = date,
                             !.recorded_by = by] :
        lat \in Option(F64), lon \in Option(F64),
        date \in EventDates, by \in Option(Collectors) }

(***************************************************************************)
(* IUCNCategory, ConservationAssessment                                    *)
(***************************************************************************)
IUCNCategory ==
    { "NotEvaluated", "DataDeficient", "LeastConcern", "NearThreatened", "Vulnerable",
      "Endangered", "CriticallyEndangered", "ExtinctInWild", "Extinct" }

\* the assessments the source constructs: the two of the mock client and the
\* two of the unit tests
SourceAssessments ==
    { [ category |-> "NotEvaluated", criteria |-> None,
        assessment_date |-> <<2024, 1, 1>>, population_trend |-> "Unknown",
        threats |-> <<"Legal restrictions", "Habitat loss">>,
        conservation_actions |-> <<"Cultivation programs">>,
        actions_needed |-> <<"Legal status review">>,
        assessor |-> Some("Mock Assessment"), reviewer |-> None ],
      [ category |-> "NearThreatened", criteria |-> Some("A2acd"),
        assessment_date |-> <<2019, 7, 18>>, population_trend |-> "Decreasing",
        threats |-> <<"Climate change", "Collection">>,
        conservation_actions |-> <<"Protected areas">>,
        actions_needed |-> <<"Population monitoring">>,
        assessor |-> Some("IUCN Species Specialist Group"),
        reviewer |-> Some("IUCN Red List Unit") ],
      [ category |-> "Extinct", criteria |-> None,
        assessment_date |-> <<2024, 1, 1>>, population_trend |-> "Decreasing",
        threats |-> <<>>, conservation_actions |-> <<>>, actions_needed |-> <<>>,
        assessor |-> None, reviewer |-> None ],
      [ category |-> "Vulnerable", criteria |-> Some("A2acd"),
        assessment_date |-> <<2024, 1, 1>>, population_trend |-> "Decreasing",
        threats |-> <<"Habitat loss">>, conservation_actions |-> <<>>,
        actions_needed |-> <<"Habitat protection">>,
        assessor |-> None, reviewer |-> None ] }

\* every field is public: any category can come with any of the other fields
AssessmentValues ==
    { [a EXCEPT !.category = c] : a \in SourceAssessments, c \in IUCNCategory }

(***************************************************************************)
(* integration::is_species_threatened                                      *)
(***************************************************************************)
\* NearThreatened counted as threatened
is_species_threatened_WithNearThreatened(assessment) ==
    assessment.category \in
        { "NearThreatened", "Vulnerable", "Endangered", "CriticallyEndangered",
          "ExtinctInWild", "Extinct" }

\* a near-threatened species in decline counted as threatened
is_species_threatened_OrDeclining(assessment) ==
    \/ assessment.category \in
          { "Vulnerable", "Endangered", "CriticallyEndangered", "ExtinctInWild", "Extinct" }
    \/ (assessment.category = "NearThreatened" /\ assessment.population_trend = "Decreasing")

is_species_threatened(assessment) ==
    assessment.category \in
        { "Vulnerable", "Endangered", "CriticallyEndangered", "ExtinctInWild", "Extinct" }

(***************************************************************************)
(* integration::get_conservation_priority                                  *)
(***************************************************************************)
\* a gapless table below Vulnerable: DataDeficient = 2, NearThreatened = 3
get_conservation_priority_Gapless(assessment) ==
    CASE assessment.category = "Extinct" -> 10
      [] assessment.category = "ExtinctInWild" -> 9
      [] assessment.category = "CriticallyEndangered" -> 8
      [] assessment.category = "Endangered" -> 7
      [] assessment.category = "Vulnerable" -> 6
      [] assessment.category = "NearThreatened" -> 3
      [] assessment.category = "DataDeficient" -> 2
      [] assessment.category = "LeastConcern" -> 1
      [] assessment.category = "NotEvaluated" -> 0

\* the scores of Vulnerable and Endangered exchanged
get_conservation_priority_VuEnSwapped(assessment) ==
    CASE assessment.category = "Extinct" -> 10
      [] assessment.category = "ExtinctInWild" -> 9
      [] assessment.category = "CriticallyEndangered" -> 8
      [] assessment.category = "Endangered" -> 6
      [] assessment.category = "Vulnerable" -> 7
      [] assessment.category = "NearThreatened" -> 4
      [] assessment.category = "DataDeficient" -> 3
      [] assessment.category = "LeastConcern" -> 1
      [] assessment.category = "NotEvaluated" -> 0

get_conservation_priority(assessment) ==
    CASE assessment.category = "Extinct" -> 10
      [] assessment.category = "ExtinctInWild" -> 9
      [] assessment.category = "CriticallyEndangered" -> 8
      [] assessment.category = "Endangered" -> 7
      [] assessment.category = "Vulnerable" -> 6
      [] assessment.category = "NearThreatened" -> 4
      [] assessment.category = "DataDeficient" -> 3
      [] assessment.category = "LeastConcern" -> 1
      [] assessment.category = "NotEvaluated" -> 0

(***************************************************************************)
(* String: is_empty, to_lowercase, contains                                *)
(***************************************************************************)
is_empty(s) == Len(s) = 0

UpperCase == <<"A","B","C","D","E","F","G","H","I","J","K","L","M",
               "N","O","P","Q","R","S","T","U","V","W","X","Y","Z">>

LowerCase == <<"a","b","c","d","e","f","g","h","i","j","k","l","m",
               "n","o","p","q","r","s","t","u","v","w","x","y","z">>

\* char::to_lowercase on the ASCII letters; every other character of the
\* texts modelled is its own lower case
char_to_lowercase(c) ==
    IF \E i \in 1..26 : UpperCase[i] = c
    THEN LowerCase[CHOOSE i \in 1..26 : UpperCase[i] = c]
    ELSE c

to_lowercase(s) == [i \in 1..Len(s) |-> char_to_lowercase(s[i])]

\* str::contains with a string pattern: pat occurs in s as a substring
contains(s, pat) ==
    \E i \in 0..(Len(s) - Len(pat)) : SubSeq(s, i + 1, i + Len(pat)) = pat

\* the words of a text joined by single spaces
RECURSIVE JoinWords(_)
JoinWords(words) ==
    IF words = <<>> THEN <<>>
    ELSE IF Len(words) = 1 THEN words[1]
    ELSE words[1] \o <<" ">> \o JoinWords(Tail(words))

(***************************************************************************)
(* extract_recommendations                                                 *)
(***************************************************************************)
\* the early return for the empty context left out
extract_recommendations_NoEarlyReturn(context) ==
        LET context_lower == to_lowercase(context)
            r0 == <<>>
            r1 == IF contains(context_lower, <<"n","u","t","r","i","e","n","t">>) /\ contains(context_lower, <<"d","e","f","i","c","i","e","n","c","y">>)
                  THEN Append(r0, "Consider adjusting nutrient levels")
                  ELSE r0
            r2 == IF contains(context_lower, <<"w","a","t","e","r">>)
                     /\ (contains(context_lower, <<"o","v","e","r">>)
                           \/ contains(context_lower, <<"u","n","d","e","r">>))
                  THEN Append(r1, "Review watering schedule")
                  ELSE r1
            r3 == IF contains(context_lower, <<"l","i","g","h","t">>) /\ contains(context_lower, <<"s","t","r","e","s","s">>)
                  THEN Append(r2, "Adjust lighting conditions")
                  ELSE r2
            r4 == IF contains(context_lower, <<"p","h">>)
                  THEN Append(r3, "Check and adjust soil/water pH levels")
                  ELSE r3
            r5 == IF contains(context_lower, <<"h","a","r","v","e","s","t">>) /\ contains(context_lower, <<"r","e","a","d","y">>)
                  THEN Append(r4, "Consider harvest timing evaluation")
                  ELSE r4
            r6 == IF contains(context_lower, <<"t","e","m","p","e","r","a","t","u","r","e">>)
                  THEN Append(r5, "Monitor temperature conditions")
                  ELSE r5
            r7 == IF contains(context_lower, <<"p","e","s","t">>) \/ contains(context_lower, <<"i","n","s","e","c","t">>)
                  THEN Append(r6, "Check for pest management needs")
                  ELSE r6
            r8 == IF contains(context_lower, <<"d","i","s","e","a","s","e">>) \/ contains(context_lower, <<"f","u","n","g","u","s">>)
                  THEN Append(r7, "Evaluate plant health and disease prevention")
                  ELSE r7
            r9 == IF contains(context_lower, <<"p","r","u","n","i","n","g">>) \/ contains(context_lower, <<"t","r","i","m">>)
                  THEN Append(r8, "Consider pruning and plant training techniques")
                  ELSE r8
        IN  IF r9 = <<>>
            THEN Append(r9, "Review cultivation data and environmental conditions")
            ELSE r9

\* the keywords searched in the context as given, not in its lower case
extract_recommendations_CaseSensitive(context) ==
    IF is_empty(context) THEN <<>>
    ELSE
        LET context_lower == context
            r0 == <<>>
            r1 == IF contains(context_lower, <<"n","u","t","r","i","e","n","t">>) /\ contains(context_lower, <<"d","e","f","i","c","i","e","n","c","y">>)
                  THEN Append(r0, "Consider adjusting nutrient levels")
                  ELSE r0
            r2 == IF contains(context_lower, <<"w","a","t","e","r">>)
                     /\ (contains(context_lower, <<"o","v","e","r">>)
                           \/ contains(context_lower, <<"u","n","d","e","r">>))
                  THEN Append(r1, "Review watering schedule")
                  ELSE r1
            r3 == IF contains(context_lower, <<"l","i","g","h","t">>) /\ contains(context_lower, <<"s","t","r","e","s","s">>)
                  THEN Append(r2, "Adjust lighting conditions")
                  ELSE r2
            r4 == IF contains(context_lower, <<"p","h">>)
                  THEN Append(r3, "Check and adjust soil/water pH levels")
                  ELSE r3
            r5 == IF contains(context_lower, <<"h","a","r","v","e","s","t">>) /\ contains(context_lower, <<"r","e","a","d","y">>)
                  THEN Append(r4, "Consider harvest timing evaluation")
                  ELSE r4
            r6 == IF contains(context_lower, <<"t","e","m","p","e","r","a","t","u","r","e">>)
                  THEN Append(r5, "Monitor temperature conditions")
                  ELSE r5
            r7 == IF contains(context_lower, <<"p","e","s","t">>) \/ contains(context_lower, <<"i","n","s","e","c","t">>)
                  THEN Append(r6, "Check for pest management needs")
                  ELSE r6
            r8 == IF contains(context_lower, <<"d","i","s","e","a","s","e">>) \/ contains(context_lower, <<"f","u","n","g","u","s">>)
                  THEN Append(r7, "Evaluate plant health and disease prevention")
                  ELSE r7
            r9 == IF contains(context_lower, <<"p","r","u","n","i","n","g">>) \/ contains(context_lower, <<"t","r","i","m">>)
                  THEN Append(r8, "Consider pruning and plant training techniques")
                  ELSE r8
        IN  IF r9 = <<>>
            THEN Append(r9, "Review cultivation data and environmental conditions")
            ELSE r9

\* the pH rule tested, and its recommendation pushed, before the nutrient rule
extract_recommendations_PhFirst(context) ==
    IF is_empty(context) THEN <<>>
    ELSE
        LET context_lower == to_lowercase(context)
            r0 == IF contains(context_lower, <<"p","h">>)
                  THEN <<"Check and adjust soil/water pH levels">>
                  ELSE <<>>
            r1 == IF contains(context_lower, <<"n","u","t","r","i","e","n","t">>) /\ contains(context_lower, <<"d","e","f","i","c","i","e","n","c","y">>)
                  THEN Append(r0, "Consider adjusting nutrient levels")
                  ELSE r0
            r2 == IF contains(context_lower, <<"w","a","t","e","r">>)
                     /\ (contains(context_lower, <<"o","v","e","r">>)
                           \/ contains(context_lower, <<"u","n","d","e","r">>))
                  THEN Append(r1, "Review watering schedule")
                  ELSE r1
            r3 == IF contains(context_lower, <<"l","i","g","h","t">>) /\ contains(context_lower, <<"s","t","r","e","s","s">>)
                  THEN Append(r2, "Adjust lighting conditions")
                  ELSE r2
            r4 == IF FALSE
                  THEN Append(r3, "Check and adjust soil/water pH levels")
                  ELSE r3
            r5 == IF contains(context_lower, <<"h","a","r","v","e","s","t">>) /\ contains(context_lower, <<"r","e","a","d","y">>)
                  THEN Append(r4, "Consider harvest timing evaluation")
                  ELSE r4
            r6 == IF contains(context_lower, <<"t","e","m","p","e","r","a","t","u","r","e">>)
                  THEN Append(r5, "Monitor temperature conditions")
                  ELSE r5
            r7 == IF contains(context_lower, <<"p","e","s","t">>) \/ contains(context_lower, <<"i","n","s","e","c","t">>)
                  THEN Append(r6, "Check for pest management needs")
                  ELSE r6
            r8 == IF contains(context_lower, <<"d","i","s","e","a","s","e">>) \/ contains(context_lower, <<"f","u","n","g","u","s">>)
                  THEN Append(r7, "Evaluate plant health and disease prevention")
                  ELSE r7
            r9 == IF contains(context_lower, <<"p","r","u","n","i","n","g">>) \/ contains(context_lower, <<"t","r","i","m">>)
                  THEN Append(r8, "Consider pruning and plant training techniques")
                  ELSE r8
        IN  IF r9 = <<>>
            THEN Append(r9, "Review cultivation data and environmental conditions")
            ELSE r9

\* the fallback added whenever fewer than two rules fired
extract_recommendations_FallbackWhenFew(context) ==
    IF is_empty(context) THEN <<>>
    ELSE
        LET context_lower == to_lowercase(context)
            r0 == <<>>
            r1 == IF contains(context_lower, <<"n","u","t","r","i","e","n","t">>) /\ contains(context_lower, <<"d","e","f","i","c","i","e","n","c","y">>)
                  THEN Append(r0, "Consider adjusting nutrient levels")
                  ELSE r0
            r2 == IF contains(context_lower, <<"w","a","t","e","r">>)
                     /\ (contains(context_lower, <<"o","v","e","r">>)
                           \/ contains(context_lower, <<"u","n","d","e","r">>))
                  THEN Append(r1, "Review watering schedule")
                  ELSE r1
            r3 == IF contains(context_lower, <<"l","i","g","h","t">>) /\ contains(context_lower, <<"s","t","r","e","s","s">>)
                  THEN Append(r2, "Adjust lighting conditions")
                  ELSE r2
            r4 == IF contains(context_lower, <<"p","h">>)
                  THEN Append(r3, "Check and adjust soil/water pH levels")
                  ELSE r3
            r5 == IF contains(context_lower, <<"h","a","r","v","e","s","t">>) /\ contains(context_lower, <<"r","e","a","d","y">>)
                  THEN Append(r4, "Consider harvest timing evaluation")
                  ELSE r4
            r6 == IF contains(context_lower, <<"t","e","m","p","e","r","a","t","u","r","e">>)
                  THEN Append(r5, "Monitor temperature conditions")
                  ELSE r5
            r7 == IF contains(context_lower, <<"p","e","s","t">>) \/ contains(context_lower, <<"i","n","s","e","c","t">>)
                  THEN Append(r6, "Check for pest management needs")
                  ELSE r6
            r8 == IF contains(context_lower, <<"d","i","s","e","a","s","e">>) \/ contains(context_lower, <<"f","u","n","g","u","s">>)
                  THEN Append(r7, "Evaluate plant health and disease prevention")
                  ELSE r7
            r9 == IF contains(context_lower, <<"p","r","u","n","i","n","g">>) \/ contains(context_lower, <<"t","r","i","m">>)
                  THEN Append(r8, "Consider pruning and plant training techniques")
                  ELSE r8
        IN  IF Len(r9) < 2
            THEN Append(r9, "Review cultivation data and environmental conditions")
            ELSE r9

extract_recommendations(context) ==
    IF is_empty(context) THEN <<>>
    ELSE
        LET context_lower == to_lowercase(context)
            r0 == <<>>
            r1 == IF contains(context_lower, <<"n","u","t","r","i","e","n","t">>) /\ contains(context_lower, <<"d","e","f","i","c","i","e","n","c","y">>)
                  THEN Append(r0, "Consider adjusting nutrient levels")
                  ELSE r0
            r2 == IF contains(context_lower, <<"w","a","t","e","r">>)
                     /\ (contains(context_lower, <<"o","v","e","r">>)
                           \/ contains(context_lower, <<"u","n","d","e","r">>))
                  THEN Append(r1, "Review watering schedule")
                  ELSE r1
            r3 == IF contains(context_lower, <<"l","i","g","h","t">>) /\ contains(context_lower, <<"s","t","r","e","s","s">>)
                  THEN Append(r2, "Adjust lighting conditions")
                  ELSE r2
            r4 == IF contains(context_lower, <<"p","h">>)
                  THEN Append(r3, "Check and adjust soil/water pH levels")
                  ELSE r3
            r5 == IF contains(context_lower, <<"h","a","r","v","e","s","t">>) /\ contains(context_lower, <<"r","e","a","d","y">>)
                  THEN Append(r4, "Consider harvest timing evaluation")
                  ELSE r4
            r6 == IF contains(context_lower, <<"t","e","m","p","e","r","a","t","u","r","e">>)
                  THEN Append(r5, "Monitor temperature conditions")
                  ELSE r5
            r7 == IF contains(context_lower, <<"p","e","s","t">>) \/ contains(context_lower, <<"i","n","s","e","c","t">>)
                  THEN Append(r6, "Check for pest management needs")
                  ELSE r6
            r8 == IF contains(context_lower, <<"d","i","s","e","a","s","e">>) \/ contains(context_lower, <<"f","u","n","g","u","s">>)
                  THEN Append(r7, "Evaluate plant health and disease prevention")
                  ELSE r7
            r9 == IF contains(context_lower, <<"p","r","u","n","i","n","g">>) \/ contains(context_lower, <<"t","r","i","m">>)
                  THEN Append(r8, "Consider pruning and plant training techniques")
                  ELSE r8
        IN  IF r9 = <<>>
            THEN Append(r9, "Review cultivation data and environmental conditions")
            ELSE r9

\* the words cultivation notes are made of: the keywords of the rules, some
\* of them with capitals, a word no rule looks for, and the empty word
Vocabulary ==
    { <<>>,
      <<"n","u","t","r","i","e","n","t">>,
      <<"d","e","f","i","c","i","e","n","c","y">>,
      <<"w","a","t","e","r">>,
      <<"o","v","e","r">>,
      <<"u","n","d","e","r">>,
      <<"l","i","g","h","t">>,
      <<"s","t","r","e","s","s">>,
      <<"p","H">>,
      <<"h","a","r","v","e","s","t">>,
      <<"r","e","a","d","y">>,
      <<"t","e","m","p","e","r","a","t","u","r","e">>,
      <<"p","e","s","t">>,
      <<"i","n","s","e","c","t">>,
      <<"d","i","s","e","a","s","e">>,
      <<"f","u","n","g","u","s">>,
      <<"p","r","u","n","i","n","g">>,
      <<"t","r","i","m">>,
      <<"p","l","a","n","t">>,
      <<"N","u","t","r","i","e","n","t">> }

\* texts of at most MaxWords words
BoundedWordLists == UNION { [1..n -> Vocabulary] : n \in 0..MaxWords }

\* the texts of the unit tests and of the spec's examples
TestWordLists ==
    { << <<"T","h","e">>, <<"p","l","a","n","t">>, <<"s","h","o","w","s">>, <<"s","i","g","n","s">>, <<"o","f">>, <<"n","u","t","r","i","e","n","t">>, <<"d","e","f","i","c","i","e","n","c","y">> >>,
      << <<"P","l","a","n","t">>, <<"a","p","p","e","a","r","s">>, <<"t","o">>, <<"b","e">>, <<"o","v","e","r","w","a","t","e","r","e","d">> >>,
      << <<"C","h","e","c","k">>, <<"t","h","e">>, <<"p","H">>, <<"l","e","v","e","l","s">>, <<"i","n">>, <<"s","o","i","l">> >>,
      << <<"G","e","n","e","r","a","l">>, <<"p","l","a","n","t">>, <<"c","o","n","c","e","r","n">> >>,
      << <<"u","n","r","e","l","a","t","e","d">>, <<"t","e","x","t">> >> }

\* words that make one rule fire, for each of the nine rules
RuleKeywords ==
    << << <<"n","u","t","r","i","e","n","t">>, <<"d","e","f","i","c","i","e","n","c","y">> >>,
       << <<"w","a","t","e","r">>, <<"u","n","d","e","r">> >>,
       << <<"l","i","g","h","t">>, <<"s","t","r","e","s","s">> >>,
       << <<"p","h">> >>,
       << <<"h","a","r","v","e","s","t">>, <<"r","e","a","d","y">> >>,
       << <<"t","e","m","p","e","r","a","t","u","r","e">> >>,
       << <<"i","n","s","e","c","t">> >>,
       << <<"f","u","n","g","u","s">> >>,
       << <<"t","r","i","m">> >> >>

\* the text that names the keywords of the rules in R, last rule first
RECURSIVE KeywordText(_)
KeywordText(R) ==
    IF R = {} THEN <<>>
    ELSE LET i == CHOOSE x \in R : \A y \in R : y <= x
         IN  RuleKeywords[i] \o KeywordText(R \ {i})

\* for every set of rules a text that makes exactly these rules fire
KeywordWordLists == { KeywordText(R) : R \in SUBSET (1..9) }

WordLists == BoundedWordLists \cup TestWordLists \cup KeywordWordLists

(***************************************************************************)
(* Result<T, DatabaseError>, f32                                           *)
(***************************************************************************)
Ok(v) == [tag |-> "Ok", value |-> v]

Err(e) == [tag |-> "Err", value |-> e]

\* the unit value ()
Unit == "()"

\* DatabaseError::ValidationError(msg)
ValidationError(msg) == [kind |-> "ValidationError", msg |-> msg]

F32 == {"-0.1", "-0.0", "0.0", "0.5", "0.8", "1.0", "1.5", "NaN"}

\* the value of an f32 that is not NaN, in tenths
F32Tenths(x) ==
    CASE x = "-0.1" -> -1
      [] x = "-0.0" -> 0
      [] x = "0.0" -> 0
      [] x = "0.5" -> 5
      [] x = "0.8" -> 8
      [] x = "1.0" -> 10
      [] x = "1.5" -> 15

\* the operators < and > on f32: false when an operand is NaN
F32Lt(x, y) == x # "NaN" /\ y # "NaN" /\ F32Tenths(x) < F32Tenths(y)

F32Gt(x, y) == x # "NaN" /\ y # "NaN" /\ F32Tenths(x) > F32Tenths(y)

(***************************************************************************)
(* Species, CultivationRecord, BotanicalContext, PlantContextResponse      *)
(***************************************************************************)
HexDigits == <<"0","1","2","3","4","5","6","7","8","9","a","b","c","d","e","f">>

\* Display of a Uuid (format!("{}", species.genus_id)): 36 characters,
\* hyphenated lower-case hexadecimal
uuid_to_string(u) ==
    <<"0","0","0","0","0","0","0","0","-","0","0","0","0","-","4","0","0","0","-","8","0","0","0","-","0","0","0","0","0","0","0","0","0","0","0">> \o <<HexDigits[u + 1]>>

UserQueries == { <<"H","o","w"," ","i","s"," ","m","y"," ","p","l","a","n","t","?">>, EmptyString }

\* crate::types::CultivationRecord
CultivationRecordLists ==
    { <<>>,
      << [species_id |-> 1, growth_stage |-> "Vegetative", notes |-> None] >>,
      << [species_id |-> 1, growth_stage |-> "Vegetative", notes |-> None],
         [species_id |-> 1, growth_stage |-> "Flowering",
          notes |-> Some(<<"l","i","g","h","t"," ","s","t","r","e","s","s">>)] >> }

\* BotanicalContext::new under the two builds: with and without the
\* contextlite feature
BotanicalContexts ==
    [ contextlite : BOOLEAN, workspace_id : { <<"t","e","s","t","-","w","o","r","k","s","p","a","c","e">> } ]

\* PlantContextResponse values: every field is public
PlantContextResponses ==
    [ plant_id : Uuids,
      query : { <<"T","e","s","t"," ","q","u","e","r","y">>, EmptyString },
      context : { <<"T","e","s","t"," ","c","o","n","t","e","x","t">>, EmptyString },
      recommendations : { <<>>, <<"Test recommendation">> },
      relevant_documents : { <<>> },
      confidence_score : F32 ]

(***************************************************************************)
(* BotanicalContext::get_plant_recommendations, query_botanical_knowledge, *)
(* index_plant_data                                                        *)
(***************************************************************************)
\* without the feature the call fails with a ContextLiteError
get_plant_recommendations_ErrWhenDisabled(self, species, cultivation_records, query) ==
    IF self.contextlite
    THEN Ok([ plant_id |-> species.id,
              query |-> query,
              context |-> <<"C","o","n","t","e","x","t"," ","f","o","r"," ">> \o species.specific_epithet
                              \o <<" ","(">> \o query \o <<")">>,
              recommendations |-> <<"Mock recommendation">>,
              relevant_documents |-> <<>>,
              confidence_score |-> "0.8" ])
    ELSE Err([kind |-> "ContextLiteError", msg |-> "ContextLite feature not enabled"])

\* the mock of the enabled build with a confidence above the range
get_plant_recommendations_Overconfident(self, species, cultivation_records, query) ==
    IF self.contextlite
    THEN Ok([ plant_id |-> species.id,
              query |-> query,
              context |-> <<"C","o","n","t","e","x","t"," ","f","o","r"," ">> \o species.specific_epithet
                              \o <<" ","(">> \o query \o <<")">>,
              recommendations |-> <<"Mock recommendation">>,
              relevant_documents |-> <<>>,
              confidence_score |-> "1.5" ])
    ELSE Ok([ plant_id |-> species.id,
              query |-> query,
              context |-> <<"C","o","n","t","e","x","t","L","i","t","e"," ","f","e","a","t","u","r","e"," ","n","o","t"," ","e","n","a","b","l","e","d">>,
              recommendations |-> <<"Enable ContextLite feature for AI recommendations">>,
              relevant_documents |-> <<>>,
              confidence_score |-> "0.0" ])

get_plant_recommendations(self, species, cultivation_records, query) ==
    IF self.contextlite
    THEN Ok([ plant_id |-> species.id,
              query |-> query,
              context |-> <<"C","o","n","t","e","x","t"," ","f","o","r"," ">> \o species.specific_epithet
                              \o <<" ","(">> \o query \o <<")">>,
              recommendations |-> <<"Mock recommendation">>,
              relevant_documents |-> <<>>,
              confidence_score |-> "0.8" ])
    ELSE Ok([ plant_id |-> species.id,
              query |-> query,
              context |-> <<"C","o","n","t","e","x","t","L","i","t","e"," ","f","e","a","t","u","r","e"," ","n","o","t"," ","e","n","a","b","l","e","d">>,
              recommendations |-> <<"Enable ContextLite feature for AI recommendations">>,
              relevant_documents |-> <<>>,
              confidence_score |-> "0.0" ])

query_botanical_knowledge(self, query) ==
    IF self.contextlite
    THEN Ok(<<"M","o","c","k"," ","b","o","t","a","n","i","c","a","l"," ","k","n","o","w","l","e","d","g","e"," ","f","o","r",":"," ">> \o query)
    ELSE Ok(<<"C","o","n","t","e","x","t","L","i","t","e"," ","f","e","a","t","u","r","e"," ","n","o","t"," ","e","n","a","b","l","e","d"," ","f","o","r"," ","q","u","e","r","y",":"," ">> \o query)

index_plant_data(self, species, records) == Ok(Unit)

(***************************************************************************)
(* build_plant_context_query                                               *)
(***************************************************************************)
\* the epithet and the user query exchanged in the format arguments
build_plant_context_query_ArgsSwapped(species, records, user_query) ==
    [ plant_id |-> species.id,
      query |-> <<"S","p","e","c","i","e","s",":"," ">> \o uuid_to_string(species.genus_id) \o <<" ">>
                    \o user_query \o <<" ","-"," ">> \o species.specific_epithet,
      include_cultivation_history |-> ~is_empty(records),
      include_species_data |-> TRUE,
      max_documents |-> 10,
      max_tokens |-> 4000 ]

build_plant_context_query(species, records, user_query) ==
    [ plant_id |-> species.id,
      query |-> <<"S","p","e","c","i","e","s",":"," ">> \o uuid_to_string(species.genus_id) \o <<" ">>
                    \o species.specific_epithet \o <<" ","-"," ">> \o user_query,
      include_cultivation_history |-> ~is_empty(records),
      include_species_data |-> TRUE,
      max_documents |-> 10,
      max_tokens |-> 4000 ]

(***************************************************************************)
(* validate_context_response                                               *)
(***************************************************************************)
\* the context checked before the query
validate_context_response_ContextFirst(response) ==
    IF is_empty(response.context)
    THEN Err(ValidationError("Context cannot be empty"))
    ELSE IF is_empty(response.query)
    THEN Err(ValidationError("Query cannot be empty"))
    ELSE IF F32Lt(response.confidence_score, "0.0") \/ F32Gt(response.confidence_score, "1.0")
    THEN Err(ValidationError("Confidence score must be between 0.0 and 1.0"))
    ELSE Ok(Unit)

validate_context_response(response) ==
    IF is_empty(response.query)
    THEN Err(ValidationError("Query cannot be empty"))
    ELSE IF is_empty(response.context)
    THEN Err(ValidationError("Context cannot be empty"))
    ELSE IF F32Lt(response.confidence_score, "0.0") \/ F32Gt(response.confidence_score, "1.0")
    THEN Err(ValidationError("Confidence score must be between 0.0 and 1.0"))
    ELSE Ok(Unit)

(***************************************************************************)
(* database::BotanicalDatabase and queries::search_darwin_core_occurrences *)
(***************************************************************************)
\* the species stored, by id: an empty database and one with a species
Databases == { {}, {1} }

\* the placeholder: neither parameter is used
search_darwin_core_occurrences(_db, _scientific_name) == Ok(<<>>)

(***************************************************************************)
(* IUCNClient                                                              *)
(***************************************************************************)
ScientificNames ==
    { <<"C","a","n","n","a","b","i","s"," ","s","a","t","i","v","a">>,
      <<"W","e","l","w","i","t","s","c","h","i","a"," ","m","i","r","a","b","i","l","i","s">>,
      <<"c","a","n","n","a","b","i","s"," ","s","a","t","i","v","a">>,
      <<"R","o","s","a"," ","r","u","b","i","g","i","n","o","s","a">>,
      EmptyString }

ApiTokens == Option({ <<"i","n","v","a","l","i","d","_","t","o","k","e","n">> })

\* IUCNClient::new; the reqwest::Client it holds is never used
IUCNClient_new(api_token) == [api_token |-> api_token]

MockCannabisSativa ==
    [ category |-> "NotEvaluated", criteria |-> None,
      assessment_date |-> <<2024, 1, 1>>, population_trend |-> "Unknown",
      threats |-> <<"Legal restrictions", "Habitat loss">>,
      conservation_actions |-> <<"Cultivation programs">>,
      actions_needed |-> <<"Legal status review">>,
      assessor |-> Some("Mock Assessment"), reviewer |-> None ]

MockWelwitschiaMirabilis ==
    [ category |-> "NearThreatened", criteria |-> Some("A2acd"),
      assessment_date |-> <<2019, 7, 18>>, population_trend |-> "Decreasing",
      threats |-> <<"Climate change", "Collection">>,
      conservation_actions |-> <<"Protected areas">>,
      actions_needed |-> <<"Population monitoring">>,
      assessor |-> Some("IUCN Species Specialist Group"),
      reviewer |-> Some("IUCN Red List Unit") ]

\* the names compared with letter case ignored
mock_conservation_data_IgnoreCase(scientific_name) ==
    CASE to_lowercase(scientific_name) = to_lowercase(<<"C","a","n","n","a","b","i","s"," ","s","a","t","i","v","a">>)
            -> Some(MockCannabisSativa)
      [] to_lowercase(scientific_name) = to_lowercase(<<"W","e","l","w","i","t","s","c","h","i","a"," ","m","i","r","a","b","i","l","i","s">>)
            -> Some(MockWelwitschiaMirabilis)
      [] OTHER -> None

\* the match of fetch_mock_conservation_data: the local value assessment
mock_conservation_data(scientific_name) ==
    CASE scientific_name = <<"C","a","n","n","a","b","i","s"," ","s","a","t","i","v","a">> -> Some(MockCannabisSativa)
      [] scientific_name = <<"W","e","l","w","i","t","s","c","h","i","a"," ","m","i","r","a","b","i","l","i","s">> -> Some(MockWelwitschiaMirabilis)
      [] OTHER -> None

\* DatabaseError values a lookup failure could be turned into
LookupFailed(e) == [kind |-> "ConfigError", msg |-> e]

\* the error of the client handed on to the caller
match_conservation_status_PropagateErr(lookup) ==
    IF lookup.tag = "Ok" THEN Ok(lookup.value)
    ELSE Err(LookupFailed(lookup.value))

\* the match of update_species_conservation_status on the awaited lookup
match_conservation_status(lookup) ==
    IF lookup.tag = "Ok" /\ lookup.value # None THEN Ok(Some(lookup.value[1]))
    ELSE IF lookup.tag = "Ok" THEN Ok(None)
    ELSE Ok(None)

(***************************************************************************)
(* The futures of get_conservation_status and of                           *)
(* update_species_conservation_status                                      *)
(***************************************************************************)
Tasks == 1..MaxTasks

\* a future not yet resolved has no output
NoResult == [tag |-> "none", value |-> None]

IdleTask ==
    [ pc |-> "idle", api |-> "none", client |-> IUCNClient_new(None),
      scientific_name |-> EmptyString, assessment |-> None,
      lookup |-> NoResult, ret |-> NoResult ]

\* first poll of a future: it runs the match on the name and suspends in
\* tokio::time::sleep
Polled(api, client, scientific_name) ==
    [ pc |-> "sleeping", api |-> api, client |-> client,
      scientific_name |-> scientific_name,
      assessment |-> mock_conservation_data(scientific_name),
      lookup |-> NoResult, ret |-> NoResult ]

\* a call that finds another one in flight takes over its assessment
StartGetConservationStatus_Coalesced(t) ==
    \E api_token \in ApiTokens, scientific_name \in ScientificNames :
        /\ tasks[t].pc = "idle"
        /\ tasks' = [tasks EXCEPT ![t] =
              LET fresh == Polled("get_conservation_status", IUCNClient_new(api_token),
                                  scientific_name)
              IN  IF \E u \in Tasks : tasks[u].pc = "sleeping"
                  THEN [fresh EXCEPT !.assessment =
                          tasks[CHOOSE u \in Tasks : tasks[u].pc = "sleeping"].assessment]
                  ELSE fresh]
        /\ UNCHANGED <<callVars, db>>

StartGetConservationStatus(t) ==
    \E api_token \in ApiTokens, scientific_name \in ScientificNames :
        /\ tasks[t].pc = "idle"
        /\ tasks' = [tasks EXCEPT ![t] =
              Polled("get_conservation_status", IUCNClient_new(api_token), scientific_name)]
        /\ UNCHANGED <<callVars, db>>

StartUpdateSpeciesConservationStatus(t) ==
    \E scientific_name \in ScientificNames :
        /\ tasks[t].pc = "idle"
        /\ tasks' = [tasks EXCEPT ![t] =
              Polled("update_species_conservation_status", IUCNClient_new(None),
                     scientific_name)]
        /\ UNCHANGED <<callVars, db>>

\* the timer fires: fetch_mock_conservation_data returns Ok(assessment), and
\* update_species_conservation_status matches on it
\* the timer fires only for a name that has an assessment
SleepElapsed_KnownNamesOnly(t) ==
    /\ tasks[t].pc = "sleeping"
    /\ tasks[t].assessment # None
    /\ tasks' = [tasks EXCEPT ![t] =
          LET lookup == Ok(tasks[t].assessment)
          IN  [ tasks[t] EXCEPT
                  !.pc = "resolved",
                  !.lookup = lookup,
                  !.ret = IF tasks[t].api = "update_species_conservation_status"
                          THEN match_conservation_status(lookup)
                          ELSE lookup ]]
    /\ UNCHANGED <<callVars, db>>

\* the species record updated in the database when an assessment was found
SleepElapsed_Persisting(t) ==
    /\ tasks[t].pc = "sleeping"
    /\ tasks' = [tasks EXCEPT ![t] =
          LET lookup == Ok(tasks[t].assessment)
          IN  [ tasks[t] EXCEPT
                  !.pc = "resolved",
                  !.lookup = lookup,
                  !.ret = IF tasks[t].api = "update_species_conservation_status"
                          THEN match_conservation_status(lookup)
                          ELSE lookup ]]
    /\ db' = IF tasks[t].api = "update_species_conservation_status"
                  /\ tasks[t].assessment # None
             THEN db \cup {1}
             ELSE db
    /\ UNCHANGED callVars

SleepElapsed(t) ==
    /\ tasks[t].pc = "sleeping"
    /\ tasks' = [tasks EXCEPT ![t] =
          LET lookup == Ok(tasks[t].assessment)
          IN  [ tasks[t] EXCEPT
                  !.pc = "resolved",
                  !.lookup = lookup,
                  !.ret = IF tasks[t].api = "update_species_conservation_status"
                          THEN match_conservation_status(lookup)
                          ELSE lookup ]]
    /\ UNCHANGED <<callVars, db>>

\* the caller's timeout drops the future while it is suspended
Cancel(t) ==
    /\ tasks[t].pc = "sleeping"
    /\ tasks' = [tasks EXCEPT ![t].pc = "cancelled"]
    /\ UNCHANGED <<callVars, db>>

\* the caller is done with the future and its output
Release(t) ==
    /\ tasks[t].pc \in {"resolved", "cancelled"}
    /\ tasks' = [tasks EXCEPT ![t] = IdleTask]
    /\ UNCHANGED <<callVars, db>>

(***************************************************************************)
(* The client                                                              *)
(***************************************************************************)
Init ==
    /\ op = "none"
    /\ args = <<>>
    /\ result = <<>>
    /\ tasks = [t \in Tasks |-> IdleTask]
    /\ db \in Databases

CallSpeciesToDarwinCoreTaxon ==
    /\ op = "none"
    /\ \E species \in SpeciesValues, genus_name \in GenusNames, new_v4 \in Uuids :
        /\ op' = "species_to_darwin_core_taxon"
        /\ args' = [species |-> species, genus_name |-> genus_name]
        /\ result' = species_to_darwin_core_taxon(species, genus_name, new_v4)
        /\ UNCHANGED <<tasks, db>>

CallCreateOccurrenceRecord ==
    /\ op = "none"
    /\ \E species \in SpeciesValues, genus_name \in GenusNames, family_name \in FamilyNames,
          location \in Locations, collection_info \in Option(Collectors), new_v4 \in Uuids :
        /\ op' = "create_occurrence_record"
        /\ args' = [species |-> species, genus_name |-> genus_name,
                    family_name |-> family_name, location |-> location,
                    collection_info |-> collection_info]
        /\ result' = create_occurrence_record(species, genus_name, family_name,
                                              location, collection_info, new_v4)
        /\ UNCHANGED <<tasks, db>>

CallValidateDarwinCoreRecord ==
    /\ op = "none"
    /\ \E record \in OccurrenceValues :
        /\ op' = "validate_darwin_core_record"
        /\ args' = [record |-> record]
        /\ result' = validate_darwin_core_record(record)
        /\ UNCHANGED <<tasks, db>>

CallIsSpeciesThreatened ==
    /\ op = "none"
    /\ \E assessment \in AssessmentValues :
        /\ op' = "is_species_threatened"
        /\ args' = [assessment |-> assessment]
        /\ result' = is_species_threatened(assessment)
        /\ UNCHANGED <<tasks, db>>

CallGetConservationPriority ==
    /\ op = "none"
    /\ \E assessment \in AssessmentValues :
        /\ op' = "get_conservation_priority"
        /\ args' = [assessment |-> assessment]
        /\ result' = get_conservation_priority(assessment)
        /\ UNCHANGED <<tasks, db>>

CallExtractRecommendations ==
    /\ op = "none"
    /\ \E words \in WordLists :
        /\ op' = "extract_recommendations"
        /\ args' = [words |-> words, context |-> JoinWords(words)]
        /\ result' = extract_recommendations(JoinWords(words))
        /\ UNCHANGED <<tasks, db>>

CallGetPlantRecommendations ==
    /\ op = "none"
    /\ \E self \in BotanicalContexts, species \in SpeciesValues,
          cultivation_records \in CultivationRecordLists, query \in UserQueries :
        /\ op' = "get_plant_recommendations"
        /\ args' = [self |-> self, species |-> species,
                    cultivation_records |-> cultivation_records, query |-> query]
        /\ result' = get_plant_recommendations(self, species, cultivation_records, query)
        /\ UNCHANGED <<tasks, db>>

CallQueryBotanicalKnowledge ==
    /\ op = "none"
    /\ \E self \in BotanicalContexts, query \in UserQueries :
        /\ op' = "query_botanical_knowledge"
        /\ args' = [self |-> self, query |-> query]
        /\ result' = query_botanical_knowledge(self, query)
        /\ UNCHANGED <<tasks, db>>

CallIndexPlantData ==
    /\ op = "none"
    /\ \E self \in BotanicalContexts, species \in SpeciesValues,
          records \in CultivationRecordLists :
        /\ op' = "index_plant_data"
        /\ args' = [self |-> self, species |-> species, records |-> records]
        /\ result' = index_plant_data(self, species, records)
        /\ UNCHANGED <<tasks, db>>

CallBuildPlantContextQuery ==
    /\ op = "none"
    /\ \E species \in SpeciesValues, records \in CultivationRecordLists,
          user_query \in UserQueries :
        /\ op' = "build_plant_context_query"
        /\ args' = [species |-> species, records |-> records, user_query |-> user_query]
        /\ result' = build_plant_context_query(species, records, user_query)
        /\ UNCHANGED <<tasks, db>>

CallValidateContextResponse ==
    /\ op = "none"
    /\ \E response \in PlantContextResponses :
        /\ op' = "validate_context_response"
        /\ args' = [response |-> response]
        /\ result' = validate_context_response(response)
        /\ UNCHANGED <<tasks, db>>

\* the future has no suspension point: it is ready at its first poll
CallSearchDarwinCoreOccurrences ==
    /\ op = "none"
    /\ \E scientific_name \in ScientificNames :
        /\ op' = "search_darwin_core_occurrences"
        /\ args' = [scientific_name |-> scientific_name]
        /\ result' = search_darwin_core_occurrences(db, scientific_name)
        /\ UNCHANGED <<tasks, db>>

\* the returned value goes out of scope in the caller
Drop ==
    /\ op # "none"
    /\ op' = "none"
    /\ args' = <<>>
    /\ result' = <<>>
    /\ UNCHANGED <<tasks, db>>

Next ==
    \/ CallSpeciesToDarwinCoreTaxon
    \/ CallCreateOccurrenceRecord
    \/ CallValidateDarwinCoreRecord
    \/ CallIsSpeciesThreatened
    \/ CallGetConservationPriority
    \/ CallExtractRecommendations
    \/ CallGetPlantRecommendations
    \/ CallQueryBotanicalKnowledge
    \/ CallIndexPlantData
    \/ CallBuildPlantContextQuery
    \/ CallValidateContextResponse
    \/ CallSearchDarwinCoreOccurrences
    \/ Drop

Spec == Init /\ [][Next]_vars

FetchNext ==
    \E t \in Tasks :
        \/ StartGetConservationStatus(t)
        \/ StartUpdateSpeciesConservationStatus(t)
        \/ SleepElapsed(t)
        \/ Cancel(t)
        \/ Release(t)

FetchSpec == Init /\ [][FetchNext]_vars

\* the runtime keeps polling a future that is awaited: the 100 ms timer of a
\* suspended fetch fires unless the future is dropped first
FairFetchSpec == FetchSpec /\ \A t \in Tasks : WF_vars(SleepElapsed(t))

\* the calls and the fetches against one database.  A call touches op, args
\* and result only and a fetch tasks only, so the two are run one kind at a
\* time: calls while no fetch is in flight, fetches while no value is held.
EnrichNext ==
    \/ (\A t \in Tasks : tasks[t].pc = "idle") /\ Next
    \/ op = "none" /\ FetchNext

EnrichSpec == Init /\ [][EnrichNext]_vars

(***************************************************************************)
(* Properties                                                              *)
(***************************************************************************)

\* C1: the taxon returned by species_to_darwin_core_taxon has a scientific
\* name that is the genus name, then one space, then the specific epithet of
\* the species, and nothing else.
C1_TaxonScientificName ==
    op = "species_to_darwin_core_taxon" =>
        LET name == result.scientific_name
            g == args.genus_name
            e == args.species.specific_epithet
        IN  /\ Len(name) = Len(g) + 1 + Len(e)
            /\ SubSeq(name, 1, Len(g)) = g
            /\ name[Len(g) + 1] = " "
            /\ SubSeq(name, Len(g) + 2, Len(name)) = e

\* the conversion of the unit test: Rosa + rubiginosa
C1_Witness ==
    /\ op = "species_to_darwin_core_taxon"
    /\ args.genus_name = <<"R","o","s","a">>
    /\ args.species.specific_epithet = <<"r","u","b","i","g","i","n","o","s","a">>
    /\ result.scientific_name = <<"R","o","s","a"," ","r","u","b","i","g","i","n","o","s","a">>

\* C2: every occurrence returned by create_occurrence_record has its genus
\* and its specific epithet present, and its scientific name is its own genus
\* field, one space, its own specific_epithet field.
C2_OccurrenceNameDerivable ==
    op = "create_occurrence_record" =>
        /\ result.genus # None
        /\ result.specific_epithet # None
        /\ result.scientific_name = result.genus[1] \o <<" ">> \o result.specific_epithet[1]

\* the occurrence of the unit test: Rosa rubiginosa, 15 characters
C2_Witness ==
    /\ op = "create_occurrence_record"
    /\ result.genus = Some(<<"R","o","s","a">>)
    /\ result.specific_epithet = Some(<<"r","u","b","i","g","i","n","o","s","a">>)
    /\ Len(result.scientific_name) = 15

\* C3: create_occurrence_record stores each axis of the location on its own:
\* an axis is present with the value given when that value is not equal to
\* 0.0 and absent when it is equal to 0.0 (as f64 values: -0.0 is equal to
\* 0.0, NaN is not); with no location both axes are absent.
C3_AxesStoredIndependently ==
    op = "create_occurrence_record" =>
        LET Stored(v) == IF v \in {"0.0", "-0.0"} THEN None ELSE Some(v)
        IN  IF args.location = None
            THEN /\ result.decimal_latitude = None
                 /\ result.decimal_longitude = None
            ELSE /\ result.decimal_latitude = Stored(args.location[1][1])
                 /\ result.decimal_longitude = Stored(args.location[1][2])

\* a location on the equator: the latitude is dropped, the longitude kept
C3_Witness ==
    /\ op = "create_occurrence_record"
    /\ args.location = Some(<<"0.0", "40.7128">>)
    /\ result.decimal_latitude = None
    /\ result.decimal_longitude = Some("40.7128")

\* C4: in every occurrence returned by create_occurrence_record latitude and
\* longitude are both present or both absent.
C4_CoordinatesJoint ==
    op = "create_occurrence_record" =>
        (is_none(result.decimal_latitude) <=> is_none(result.decimal_longitude))

\* C5: create_occurrence_record returns kingdom Plantae, the family and genus
\* given, the collector given (absent when none is given), an individual
\* count of 1, basis PreservedSpecimen, status Present, and every other
\* optional field absent.
C5_OccurrenceDefaults ==
    op = "create_occurrence_record" =>
        /\ result.kingdom = Some("Plantae")
        /\ result.family = Some(args.family_name)
        /\ result.genus = Some(args.genus_name)
        /\ result.recorded_by = args.collection_info
        /\ result.individual_count = Some(1)
        /\ result.basis_of_record = "PreservedSpecimen"
        /\ result.occurrence_status = "Present"
        /\ \A f \in { "phylum", "class", "order", "event_date", "event_time",
                      "coordinate_uncertainty_in_meters", "country", "state_province",
                      "locality", "catalog_number", "collection_code", "institution_code",
                      "life_stage", "reproductive_condition", "establishment_means",
                      "preparations" } : result[f] = None

\* the occurrence of the unit test, with family, genus and collector given
C5_Witness ==
    /\ op = "create_occurrence_record"
    /\ args.family_name = <<"R","o","s","a","c","e","a","e">>
    /\ args.genus_name = <<"R","o","s","a">>
    /\ args.collection_info = Some(<<"J","."," ","S","m","i","t","h">>)
    /\ result.recorded_by = Some(<<"J","."," ","S","m","i","t","h">>)
    /\ result.family # result.genus

\* C6: species_to_darwin_core_taxon always returns a taxon (it has no error
\* outcome) whose authorship is the authority of the species, with status
\* Accepted, rank Species, code ICN, and no nomenclatural status and no
\* parent, accepted or original name usage.
C6_TaxonFixedFields ==
    op = "species_to_darwin_core_taxon" =>
        /\ DOMAIN result = { "taxon_id", "scientific_name", "scientific_name_authorship",
                             "taxonomic_status", "taxon_rank", "nomenclatural_code",
                             "nomenclatural_status", "parent_name_usage_id",
                             "accepted_name_usage_id", "original_name_usage_id" }
        /\ result.scientific_name_authorship = Some(args.species.authority)
        /\ result.taxonomic_status = "Accepted"
        /\ result.taxon_rank = "Species"
        /\ result.nomenclatural_code = Some("ICN")
        /\ result.nomenclatural_status = None
        /\ result.parent_name_usage_id = None
        /\ result.accepted_name_usage_id = None
        /\ result.original_name_usage_id = None

\* the taxon of the unit test, authority "L."
C6_Witness ==
    /\ op = "species_to_darwin_core_taxon"
    /\ args.species.authority = <<"L",".">>
    /\ result.scientific_name_authorship = Some(<<"L",".">>)
    /\ result.taxon_rank = "Species"

\* C7: validate_darwin_core_record returns the warnings "Missing geographic
\* coordinates" (latitude or longitude absent), "Missing collection date"
\* (event date absent), "Missing collector information" (recorder absent), in
\* this order and each at most once: three warnings when all are absent, none
\* exactly when latitude, longitude, date and recorder are all present.
C7_ValidationWarnings ==
    op = "validate_darwin_core_record" =>
        LET r == args.record
            NoCoordinates == r.decimal_latitude = None \/ r.decimal_longitude = None
            NoDate == r.event_date = None
            NoRecorder == r.recorded_by = None
            Selected(w) ==
                \/ w = "Missing geographic coordinates" /\ NoCoordinates
                \/ w = "Missing collection date" /\ NoDate
                \/ w = "Missing collector information" /\ NoRecorder
        IN  /\ result = SelectSeq(<< "Missing geographic coordinates",
                                     "Missing collection date",
                                     "Missing collector information" >>, Selected)
            /\ (r.decimal_latitude = None /\ r.decimal_longitude = None /\ NoDate /\ NoRecorder)
                  => Len(result) = 3
            /\ (result = <<>>) <=>
                  (r.decimal_latitude # None /\ r.decimal_longitude # None
                     /\ r.event_date # None /\ r.recorded_by # None)

\* a record with a latitude but no longitude, dated and with a recorder: the
\* coordinates warning alone
C7_Witness ==
    /\ op = "validate_darwin_core_record"
    /\ args.record.decimal_latitude # None
    /\ args.record.decimal_longitude = None
    /\ args.record.event_date # None
    /\ args.record.recorded_by # None
    /\ result = <<"Missing geographic coordinates">>

\* C8: is_species_threatened is true exactly for the categories Vulnerable,
\* Endangered, CriticallyEndangered, ExtinctInWild and Extinct, and false for
\* NotEvaluated, DataDeficient, LeastConcern and NearThreatened.
C8_ThreatenedCategories ==
    op = "is_species_threatened" =>
        LET c == args.assessment.category
        IN  /\ result \in BOOLEAN
            /\ result = TRUE <=>
                  c \in {"Vulnerable", "Endangered", "CriticallyEndangered",
                         "ExtinctInWild", "Extinct"}
            /\ result = FALSE <=>
                  c \in {"NotEvaluated", "DataDeficient", "LeastConcern", "NearThreatened"}

\* the closest category below the threshold: NearThreatened is not threatened
C8_Witness ==
    /\ op = "is_species_threatened"
    /\ args.assessment.category = "NearThreatened"
    /\ result = FALSE

\* C9: get_conservation_priority returns, for each of the nine categories, the
\* score of the table NotEvaluated 0, LeastConcern 1, DataDeficient 3,
\* NearThreatened 4, Vulnerable 6, Endangered 7, CriticallyEndangered 8,
\* ExtinctInWild 9, Extinct 10: an integer in 0..10, never 2 or 5.
C9_PriorityTable ==
    op = "get_conservation_priority" =>
        LET table == [ NotEvaluated |-> 0, LeastConcern |-> 1, DataDeficient |-> 3,
                       NearThreatened |-> 4, Vulnerable |-> 6, Endangered |-> 7,
                       CriticallyEndangered |-> 8, ExtinctInWild |-> 9, Extinct |-> 10 ]
        IN  /\ args.assessment.category \in DOMAIN table
            /\ result = table[args.assessment.category]
            /\ result \in 0..10
            /\ result \notin {2, 5}

\* the score of a DataDeficient assessment
C9_Witness ==
    /\ op = "get_conservation_priority"
    /\ args.assessment.category = "DataDeficient"
    /\ result = 3

\* position of a category in the declaration of IUCNCategory
Ordinal(c) ==
    CHOOSE i \in 1..9 :
        << "NotEvaluated", "DataDeficient", "LeastConcern", "NearThreatened", "Vulnerable",
           "Endangered", "CriticallyEndangered", "ExtinctInWild", "Extinct" >>[i] = c

\* C10 as stated: the score is strictly monotonic in the nine-level ordinal,
\* every category that comes before the one scored has a strictly smaller score.
C10_StrictlyMonotonic ==
    op = "get_conservation_priority" =>
        \A a \in AssessmentValues :
            Ordinal(a.category) < Ordinal(args.assessment.category)
                => get_conservation_priority(a) < result

\* C10 as amended: the score is strictly monotonic in the nine-level ordinal
\* except for the pair DataDeficient, LeastConcern, where the earlier category
\* DataDeficient has the larger score.
C10_MonotonicButDataDeficient ==
    op = "get_conservation_priority" =>
        \A a \in AssessmentValues :
            Ordinal(a.category) < Ordinal(args.assessment.category) =>
                IF a.category = "DataDeficient" /\ args.assessment.category = "LeastConcern"
                THEN get_conservation_priority(a) > result
                ELSE get_conservation_priority(a) < result

\* the score of LeastConcern, below that of the earlier DataDeficient
C10_Witness ==
    /\ op = "get_conservation_priority"
    /\ args.assessment.category = "LeastConcern"
    /\ result = 1
    /\ \E a \in AssessmentValues :
          a.category = "DataDeficient" /\ get_conservation_priority(a) = 3

\* the recommendations of the nine rules, in the order of the rule table
RuleRecommendations ==
    << "Consider adjusting nutrient levels",
       "Review watering schedule",
       "Adjust lighting conditions",
       "Check and adjust soil/water pH levels",
       "Consider harvest timing evaluation",
       "Monitor temperature conditions",
       "Check for pest management needs",
       "Evaluate plant health and disease prevention",
       "Consider pruning and plant training techniques" >>

FallbackRecommendation == "Review cultivation data and environmental conditions"

\* word occurs in text as a substring, letter case ignored
Mentions(text, word) ==
    \E i \in 1..(Len(text) - Len(word) + 1) :
        \A k \in 1..Len(word) : char_to_lowercase(text[i + k - 1]) = word[k]

\* the keyword conditions of the nine rules, in the order of the rule table
RuleHolds(text) ==
    << Mentions(text, <<"n","u","t","r","i","e","n","t">>) /\ Mentions(text, <<"d","e","f","i","c","i","e","n","c","y">>),
       Mentions(text, <<"w","a","t","e","r">>)
          /\ (Mentions(text, <<"o","v","e","r">>) \/ Mentions(text, <<"u","n","d","e","r">>)),
       Mentions(text, <<"l","i","g","h","t">>) /\ Mentions(text, <<"s","t","r","e","s","s">>),
       Mentions(text, <<"p","h">>),
       Mentions(text, <<"h","a","r","v","e","s","t">>) /\ Mentions(text, <<"r","e","a","d","y">>),
       Mentions(text, <<"t","e","m","p","e","r","a","t","u","r","e">>),
       Mentions(text, <<"p","e","s","t">>) \/ Mentions(text, <<"i","n","s","e","c","t">>),
       Mentions(text, <<"d","i","s","e","a","s","e">>) \/ Mentions(text, <<"f","u","n","g","u","s">>),
       Mentions(text, <<"p","r","u","n","i","n","g">>) \/ Mentions(text, <<"t","r","i","m">>) >>

\* errors a lookup of the client could end in
LookupErrors == {"error sending request", "operation timed out"}

\* C11: update_species_conservation_status never resolves to an error: a
\* lookup of Ok(Some(a)) is handed on as Ok(Some(a)) with the same a, a lookup
\* of Ok(None) as Ok(None), and an Err of the client becomes Ok(None).
C11_NeverAnError ==
    /\ \A t \in Tasks :
          (tasks[t].api = "update_species_conservation_status"
             /\ tasks[t].pc = "resolved") =>
              /\ tasks[t].ret.tag = "Ok"
              /\ tasks[t].lookup.tag = "Ok"
              /\ tasks[t].ret.value = tasks[t].lookup.value
    /\ \A a \in AssessmentValues :
          match_conservation_status(Ok(Some(a))) = Ok(Some(a))
    /\ match_conservation_status(Ok(None)) = Ok(None)
    /\ \A e \in LookupErrors :
          LET ret == match_conservation_status(Err(e))
          IN  ret.tag = "Ok" /\ ret.value = None

\* one wrapper has resolved to the assessment of its lookup, another to
\* Ok(None)
C11_Witness ==
    \E t, u \in Tasks :
        /\ tasks[t].api = "update_species_conservation_status"
        /\ tasks[t].pc = "resolved"
        /\ tasks[t].lookup = Ok(Some(MockWelwitschiaMirabilis))
        /\ tasks[t].ret = Ok(Some(MockWelwitschiaMirabilis))
        /\ tasks[u].api = "update_species_conservation_status"
        /\ tasks[u].pc = "resolved"
        /\ tasks[u].lookup = Ok(None)
        /\ tasks[u].ret = Ok(None)

\* C12: a call of update_species_conservation_status whose fetch was
\* cancelled while in flight, or whose fetch failed with a transport error,
\* has resolved to Ok(None): it has neither an error nor no result at all.
C12_CancelledResolvesToNone ==
    /\ \A t \in Tasks :
          (tasks[t].api = "update_species_conservation_status"
             /\ tasks[t].pc = "cancelled") =>
              tasks[t].ret = Ok(None)
    /\ \A e \in LookupErrors :
          LET ret == match_conservation_status(Err(e))
          IN  ret.tag = "Ok" /\ ret.value = None

\* the category the lookup table has for a name, "none" when it has no entry
CategoryOfName(name) ==
    IF name = <<"C","a","n","n","a","b","i","s"," ","s","a","t","i","v","a">> THEN "NotEvaluated"
    ELSE IF name = <<"W","e","l","w","i","t","s","c","h","i","a"," ","m","i","r","a","b","i","l","i","s">> THEN "NearThreatened"
    ELSE "none"

\* the category held in an Option<ConservationAssessment>
CategoryOfOption(o) == IF o = None THEN "none" ELSE o[1].category

\* C13: concurrent fetches are independent and not coalesced.  In every
\* interleaving, what a call in flight has looked up and what a resolved call
\* returns are those of its own scientific name, whatever the other calls
\* are doing; two calls for the same name that have both resolved hold the
\* same result, and a call stays in flight until its own timer fires.
C13_FetchesIndependent ==
    /\ \A t \in Tasks :
          /\ tasks[t].pc \in {"sleeping", "resolved"} =>
                CategoryOfOption(tasks[t].assessment) = CategoryOfName(tasks[t].scientific_name)
          /\ tasks[t].pc = "resolved" =>
                /\ tasks[t].ret.tag = "Ok"
                /\ CategoryOfOption(tasks[t].ret.value) = CategoryOfName(tasks[t].scientific_name)
          /\ tasks[t].pc = "sleeping" => tasks[t].ret = NoResult
    /\ \A t, u \in Tasks :
          (tasks[t].pc = "resolved" /\ tasks[u].pc = "resolved"
             /\ tasks[t].scientific_name = tasks[u].scientific_name) =>
              tasks[t].ret = tasks[u].ret

\* two calls for "Cannabis sativa" were in flight together: one has resolved,
\* its duplicate is still in flight with its own lookup and no result yet
C13_Witness ==
    \E t, u \in Tasks :
        /\ t # u
        /\ tasks[t].api = "get_conservation_status"
        /\ tasks[u].api = "get_conservation_status"
        /\ tasks[t].scientific_name = <<"C","a","n","n","a","b","i","s"," ","s","a","t","i","v","a">>
        /\ tasks[u].scientific_name = <<"C","a","n","n","a","b","i","s"," ","s","a","t","i","v","a">>
        /\ tasks[t].pc = "resolved"
        /\ tasks[t].ret = Ok(Some(MockCannabisSativa))
        /\ tasks[u].pc = "sleeping"
        /\ tasks[u].assessment = Some(MockCannabisSativa)
        /\ tasks[u].ret = NoResult

\* C14: a resolved get_conservation_status is Ok(Some) with category
\* NotEvaluated for "Cannabis sativa", Ok(Some) with category NearThreatened
\* for "Welwitschia mirabilis", and Ok(None) for every other name, the empty
\* string and names in another letter case included; it is never Err, whatever
\* the api_token of the client.
C14_MockLookupTable ==
    \A t \in Tasks :
        (tasks[t].api = "get_conservation_status" /\ tasks[t].pc = "resolved") =>
            LET name == tasks[t].scientific_name
                ret == tasks[t].ret
            IN  /\ ret.tag = "Ok"
                /\ name = <<"C","a","n","n","a","b","i","s"," ","s","a","t","i","v","a">> =>
                      (ret.value # None /\ ret.value[1].category = "NotEvaluated")
                /\ name = <<"W","e","l","w","i","t","s","c","h","i","a"," ","m","i","r","a","b","i","l","i","s">> =>
                      (ret.value # None /\ ret.value[1].category = "NearThreatened")
                /\ name \notin { <<"C","a","n","n","a","b","i","s"," ","s","a","t","i","v","a">>, <<"W","e","l","w","i","t","s","c","h","i","a"," ","m","i","r","a","b","i","l","i","s">> } =>
                      ret.value = None

\* a client with a token resolves the lower-case name to Ok(None) while a
\* client without one resolves "Cannabis sativa" to Ok(Some)
C14_Witness ==
    \E t, u \in Tasks :
        /\ tasks[t].api = "get_conservation_status"
        /\ tasks[t].pc = "resolved"
        /\ tasks[t].client.api_token = Some(<<"i","n","v","a","l","i","d","_","t","o","k","e","n">>)
        /\ tasks[t].scientific_name = <<"c","a","n","n","a","b","i","s"," ","s","a","t","i","v","a">>
        /\ tasks[t].ret = Ok(None)
        /\ tasks[u].api = "get_conservation_status"
        /\ tasks[u].pc = "resolved"
        /\ tasks[u].client.api_token = None
        /\ tasks[u].scientific_name = <<"C","a","n","n","a","b","i","s"," ","s","a","t","i","v","a">>
        /\ tasks[u].ret = Ok(Some(MockCannabisSativa))

\* C15: extract_recommendations returns the empty sequence for the empty
\* string; for a non-empty input on which none of the nine rules fires
\* (whitespace alone included) it returns exactly the fallback recommendation.
C15_EmptyAndFallback ==
    op = "extract_recommendations" =>
        /\ Len(args.context) = 0 => result = <<>>
        /\ (Len(args.context) > 0 /\ \A i \in 1..9 : ~RuleHolds(args.context)[i])
              => result = <<FallbackRecommendation>>

\* a text of one space: not empty, no rule fires, the fallback is returned
C15_Witness ==
    /\ op = "extract_recommendations"
    /\ args.context = <<" ">>
    /\ result = <<FallbackRecommendation>>

\* C16: for a non-empty input each of the nine rule recommendations is in the
\* result exactly when the keyword condition of its rule holds on the input,
\* letter case ignored; the rules do not exclude one another.
C16_RulesIndependent ==
    (op = "extract_recommendations" /\ Len(args.context) > 0) =>
        \A i \in 1..9 :
            (\E k \in 1..Len(result) : result[k] = RuleRecommendations[i])
                <=> RuleHolds(args.context)[i]

\* all nine rules fire on one text
C16_Witness ==
    /\ op = "extract_recommendations"
    /\ args.words = KeywordText(1..9)
    /\ Len(result) = 9
    /\ \A i \in 1..9 : \E k \in 1..9 : result[k] = RuleRecommendations[i]

\* C17: the recommendations returned come in the order of the rule table,
\* whatever the order of the keywords in the text: exchanging two
\* neighbouring words of the input leaves the output as it is.
C17_RuleTableOrder ==
    op = "extract_recommendations" =>
        /\ \A j, k \in 1..Len(result) :
              j < k => \E m, n \in 1..9 : /\ m < n
                                          /\ result[j] = RuleRecommendations[m]
                                          /\ result[k] = RuleRecommendations[n]
        /\ \A p \in 1..(Len(args.words) - 1) :
              LET swapped == [args.words EXCEPT ![p] = args.words[p + 1],
                                                ![p + 1] = args.words[p]]
              IN  extract_recommendations(JoinWords(swapped)) = result

\* the keywords came last rule first, the recommendations first rule first
C17_Witness ==
    /\ op = "extract_recommendations"
    /\ args.words = KeywordText({1, 4, 9})
    /\ args.words[1] = <<"t","r","i","m">>
    /\ result = << RuleRecommendations[1], RuleRecommendations[4], RuleRecommendations[9] >>

\* C18: validate_context_response returns Ok exactly when the query is not
\* empty, the context is not empty and 0.0 <= confidence_score <= 1.0, both
\* ends included; in every other case it returns a ValidationError.
C18_OkIffWellFormed ==
    op = "validate_context_response" =>
        LET r == args.response
            InRange == /\ r.confidence_score # "NaN"
                       /\ 0 <= F32Tenths(r.confidence_score)
                       /\ F32Tenths(r.confidence_score) <= 10
            WellFormed == Len(r.query) > 0 /\ Len(r.context) > 0 /\ InRange
        IN  /\ result.tag \in {"Ok", "Err"}
            /\ result.tag = "Ok" <=> WellFormed
            /\ result.tag = "Err" => result.value.kind = "ValidationError"

\* C19: without the contextlite feature get_plant_recommendations returns Ok
\* for every species, record list and query, with the id of the species, the
\* query as given, the context "ContextLite feature not enabled", at least one
\* recommendation, no documents and confidence 0.0; query_botanical_knowledge
\* and index_plant_data return Ok too.
C19_DisabledNeverFails ==
    /\ (op = "get_plant_recommendations" /\ ~args.self.contextlite) =>
          /\ result.tag = "Ok"
          /\ result.value.plant_id = args.species.id
          /\ result.value.query = args.query
          /\ result.value.context = <<"C","o","n","t","e","x","t","L","i","t","e"," ","f","e","a","t","u","r","e"," ","n","o","t"," ","e","n","a","b","l","e","d">>
          /\ Len(result.value.recommendations) > 0
          /\ result.value.relevant_documents = <<>>
          /\ result.value.confidence_score = "0.0"
    /\ (op \in {"query_botanical_knowledge", "index_plant_data"} /\ ~args.self.contextlite) =>
          result.tag = "Ok"

\* the disabled build asked about a plant with an empty query and no records
C19_Witness ==
    /\ op = "get_plant_recommendations"
    /\ ~args.self.contextlite
    /\ args.query = <<>>
    /\ args.cultivation_records = <<>>
    /\ result.tag = "Ok"
    /\ result.value.confidence_score = "0.0"

\* C20: build_plant_context_query returns the id of the species as plant_id,
\* include_cultivation_history true exactly when there are records,
\* include_species_data true, max_documents 10, max_tokens 4000, and a query
\* string that contains the specific epithet and ends with the user query.
C20_ContextQuery ==
    op = "build_plant_context_query" =>
        LET q == result.query
            e == args.species.specific_epithet
            u == args.user_query
        IN  /\ result.plant_id = args.species.id
            /\ result.include_cultivation_history <=> (Len(args.records) > 0)
            /\ result.include_species_data = TRUE
            /\ result.max_documents = 10
            /\ result.max_tokens = 4000
            /\ \E i \in 0..(Len(q) - Len(e)) : SubSeq(q, i + 1, i + Len(e)) = e
            /\ Len(q) >= Len(u)
            /\ SubSeq(q, Len(q) - Len(u) + 1, Len(q)) = u

\* the query of the unit test: one record, an epithet and a question
C20_Witness ==
    /\ op = "build_plant_context_query"
    /\ Len(args.records) = 1
    /\ args.species.specific_epithet = <<"r","u","b","i","g","i","n","o","s","a">>
    /\ args.user_query = <<"H","o","w"," ","i","s"," ","m","y"," ","p","l","a","n","t","?">>
    /\ result.include_cultivation_history
    /\ result.query = <<"S","p","e","c","i","e","s",":"," ","0","0","0","0","0","0","0","0","-","0","0","0","0","-","4","0","0","0","-","8","0","0","0","-","0","0","0","0","0","0","0","0","0","0","0","1"," ","r","u","b","i","g","i","n","o","s","a"," ","-"," ","H","o","w"," ","i","s"," ","m","y"," ","p","l","a","n","t","?">>

\* C21: the core operations are pure: whatever one invocation returned, any
\* other invocation with equal arguments returns a result equal to it in
\* every field (for the two conversions: whatever identifier the other
\* invocation draws).
C21_CoreOperationsPure ==
    /\ op = "species_to_darwin_core_taxon" =>
          \A new_v4 \in Uuids :
              species_to_darwin_core_taxon(args.species, args.genus_name, new_v4) = result
    /\ op = "create_occurrence_record" =>
          \A new_v4 \in Uuids :
              create_occurrence_record(args.species, args.genus_name, args.family_name,
                                       args.location, args.collection_info, new_v4) = result
    /\ op = "validate_darwin_core_record" =>
          validate_darwin_core_record(args.record) = result
    /\ op = "get_conservation_priority" =>
          get_conservation_priority(args.assessment) = result
    /\ op = "is_species_threatened" =>
          is_species_threatened(args.assessment) = result
    /\ op = "extract_recommendations" =>
          extract_recommendations(args.context) = result

\* C22: no operation calls back into persistence.  No step of
\* update_species_conservation_status or get_conservation_status (started,
\* resolved with or without an assessment, cancelled, released), of
\* search_darwin_core_occurrences, or of a conversion, validation,
\* classification or extraction call changes the database, and a fetch keeps
\* the scientific name it was given until it ends.
C22_NoCallBackIntoPersistence ==
    [][ /\ db' = db
        /\ \A t \in Tasks :
              (tasks[t].pc = "sleeping" /\ tasks'[t].pc # "idle") =>
                  tasks'[t].scientific_name = tasks[t].scientific_name ]_vars

\* against a database with a species in it, one wrapper has resolved with an
\* assessment and another without
C22_Witness ==
    /\ db = {1}
    /\ \E t, u \in Tasks :
          /\ tasks[t].api = "update_species_conservation_status"
          /\ tasks[t].pc = "resolved"
          /\ tasks[t].scientific_name = <<"C","a","n","n","a","b","i","s"," ","s","a","t","i","v","a">>
          /\ tasks[t].ret.value # None
          /\ tasks[u].api = "update_species_conservation_status"
          /\ tasks[u].pc = "resolved"
          /\ tasks[u].scientific_name = <<"R","o","s","a"," ","r","u","b","i","g","i","n","o","s","a">>
          /\ tasks[u].ret = Ok(None)

\* C23: validate_darwin_core_record reports every record made by
\* create_occurrence_record as incomplete: "Missing collection date" is always
\* among the warnings; it is the only warning exactly when a location with
\* both axes non-zero and a collector were given; a location with an axis
\* equal to 0.0 also gets "Missing geographic coordinates".
C23_CreatedRecordIncomplete ==
    op = "create_occurrence_record" =>
        LET warnings == validate_darwin_core_record(result)
            location == args.location
            NonZero(x) == x \notin {"0.0", "-0.0"}
            Located == location # None /\ NonZero(location[1][1]) /\ NonZero(location[1][2])
        IN  /\ \E i \in 1..Len(warnings) : warnings[i] = "Missing collection date"
            /\ (warnings = <<"Missing collection date">>)
                  <=> (Located /\ args.collection_info # None)
            /\ (location # None /\ ~Located) =>
                  \E i \in 1..Len(warnings) : warnings[i] = "Missing geographic coordinates"

\* a record collected on the equator by a named collector: the coordinates
\* warning and the date warning
C23_Witness ==
    /\ op = "create_occurrence_record"
    /\ args.location = Some(<<"0.0", "40.7128">>)
    /\ args.collection_info # None
    /\ result.decimal_latitude = None
    /\ result.decimal_longitude = Some("40.7128")
    /\ validate_darwin_core_record(result)
         = <<"Missing geographic coordinates", "Missing collection date">>

\* C24: the two classifier functions agree and look at the category only:
\* is_species_threatened is true exactly when get_conservation_priority is at
\* least 6, and assessments of one category get the same verdict and the same
\* priority whatever their other fields are.
C24_ClassifiersAgree ==
    /\ op = "is_species_threatened" =>
          /\ result <=> (get_conservation_priority(args.assessment) >= 6)
          /\ \A b \in AssessmentValues :
                b.category = args.assessment.category =>
                    is_species_threatened(b) = result
    /\ op = "get_conservation_priority" =>
          /\ (result >= 6) <=> is_species_threatened(args.assessment)
          /\ \A b \in AssessmentValues :
                b.category = args.assessment.category =>
                    get_conservation_priority(b) = result

\* a near-threatened species in decline is not threatened, and there is an
\* assessment of the same category with another trend
C24_Witness ==
    /\ op = "is_species_threatened"
    /\ args.assessment.category = "NearThreatened"
    /\ args.assessment.population_trend = "Decreasing"
    /\ result = FALSE
    /\ \E b \in AssessmentValues :
          /\ b.category = "NearThreatened"
          /\ b.population_trend # "Decreasing"
          /\ b.criteria # args.assessment.criteria

\* C25: the response of get_plant_recommendations, in the build with the
\* contextlite feature (confidence 0.8) and in the build without (confidence
\* 0.0), has a confidence_score within [0.0, 1.0] and a non-empty context,
\* and validate_context_response accepts it exactly when the query argument
\* is not empty.
C25_MockResponseWellFormed ==
    op = "get_plant_recommendations" =>
        /\ result.tag = "Ok"
        /\ LET response == result.value
            IN  /\ response.confidence_score = (IF args.self.contextlite THEN "0.8" ELSE "0.0")
                /\ response.confidence_score # "NaN"
                /\ 0 <= F32Tenths(response.confidence_score)
                /\ F32Tenths(response.confidence_score) <= 10
                /\ Len(response.context) > 0
                /\ (validate_context_response(response).tag = "Ok")
                      <=> (Len(args.query) > 0)

\* the enabled build asked the empty query: a response of confidence 0.8 that
\* the validator rejects for its query
C25_Witness ==
    /\ op = "get_plant_recommendations"
    /\ args.self.contextlite
    /\ args.query = EmptyString
    /\ result.tag = "Ok"
    /\ result.value.confidence_score = "0.8"
    /\ validate_context_response(result.value).tag = "Err"
    /\ validate_context_response(result.value).value.msg = "Query cannot be empty"

\* C26: validate_context_response reports the first violated rule only, in
\* the order query, context, confidence: an empty query gives "Query cannot be
\* empty" whatever the context and the confidence are; an empty context with a
\* non-empty query gives "Context cannot be empty"; the confidence error comes
\* only with both strings non-empty.  The response passed is a value of the
\* response type afterwards as before.
C26_FirstViolatedRule ==
    op = "validate_context_response" =>
        LET response == args.response
            Message == IF result.tag = "Err" THEN result.value.msg ELSE "none"
        IN  /\ response \in PlantContextResponses
            /\ result.tag = "Err" => result.value.kind = "ValidationError"
            /\ Len(response.query) = 0 => Message = "Query cannot be empty"
            /\ (Len(response.query) > 0 /\ Len(response.context) = 0)
                  => Message = "Context cannot be empty"
            /\ Message = "Confidence score must be between 0.0 and 1.0"
                  => (Len(response.query) > 0 /\ Len(response.context) > 0)

\* a response that breaks all three rules is reported for its query
C26_Witness ==
    /\ op = "validate_context_response"
    /\ args.response.query = EmptyString
    /\ args.response.context = EmptyString
    /\ args.response.confidence_score = "1.5"
    /\ result.tag = "Err"
    /\ result.value.msg = "Query cannot be empty"

\* C27: for a non-empty input extract_recommendations returns between 1 and
\* 9 recommendations, no recommendation twice, and the fallback
\* recommendation only as the sole element, never next to a recommendation of
\* a rule.
C27_ResultShape ==
    (op = "extract_recommendations" /\ Len(args.context) > 0) =>
        /\ 1 <= Len(result)
        /\ Len(result) <= 9
        /\ \A i, j \in 1..Len(result) : i # j => result[i] # result[j]
        /\ (\E i \in 1..Len(result) : result[i] = FallbackRecommendation)
              => result = <<FallbackRecommendation>>
        /\ (\E i \in 1..Len(result), n \in 1..9 : result[i] = RuleRecommendations[n])
              => \A i \in 1..Len(result) : result[i] # FallbackRecommendation

\* a text that fires all nine rules: nine recommendations, no fallback; the
\* rule of a single keyword fires alone on another text
C27_Witness ==
    /\ op = "extract_recommendations"
    /\ Len(args.context) > 0
    /\ Len(result) = 9
    /\ \A n \in 1..9 : \E i \in 1..9 : result[i] = RuleRecommendations[n]
    /\ \A i \in 1..9 : result[i] # FallbackRecommendation
    /\ \E words \in WordLists :
          extract_recommendations(JoinWords(words)) = <<"Monitor temperature conditions">>

\* C28: every fetch that was started and is not cancelled completes: a
\* suspended get_conservation_status or update_species_conservation_status
\* is eventually resolved (or was cancelled), a resolved one holds an Ok
\* result, for every scientific name; and the lookup is fixed before the
\* delay: while the fetch is suspended its assessment does not change, and
\* what it resolves with is the assessment it had when it suspended.
C28_EventuallyCompletes ==
    /\ \A t \in Tasks :
          (tasks[t].pc = "sleeping") ~> (tasks[t].pc \in {"resolved", "cancelled"})
    /\ [](\A t \in Tasks :
            tasks[t].pc = "resolved" =>
                (tasks[t].ret.tag = "Ok" /\ tasks[t].lookup.tag = "Ok"))
    /\ [][\A t \in Tasks :
            (tasks[t].pc = "sleeping" /\ tasks'[t].pc \in {"sleeping", "resolved"}) =>
                /\ tasks'[t].assessment = tasks[t].assessment
                /\ tasks'[t].pc = "resolved" =>
                      (tasks'[t].lookup.value = tasks[t].assessment
                         /\ tasks'[t].ret.value = tasks[t].assessment)]_vars

\* a wrapper for a name without an assessment has resolved after its delay
\* while a fetch started for a known name was cancelled
C28_Witness ==
    \E t, u \in Tasks :
        /\ tasks[t].api = "update_species_conservation_status"
        /\ tasks[t].pc = "resolved"
        /\ tasks[t].scientific_name = EmptyString
        /\ tasks[t].ret = Ok(None)
        /\ tasks[u].api = "get_conservation_status"
        /\ tasks[u].pc = "cancelled"
        /\ tasks[u].scientific_name = <<"W","e","l","w","i","t","s","c","h","i","a"," ","m","i","r","a","b","i","l","i","s">>
        /\ tasks[u].ret = NoResult

====

